---- MODULE Spec2Model ----
(***************************************************************************)
(* Model of src/sber_driver.c: a character device backed by a bounded FIFO *)
(* byte queue (struct queue_device), with three open modes selected by     *)
(* device_ioctl.  Every handle (struct file) is driven by one caller that  *)
(* issues one system call at a time; calls of different handles interleave *)
(* at the points where the code touches shared state.                      *)
(***************************************************************************)
EXTENDS Integers, Sequences, FiniteSets, TLC

(* ---------------------------------------------------------------------- *)
(* Program constants                                                       *)
(* ---------------------------------------------------------------------- *)
QUEUE_SIZE == 1000
DEFAULT_MODE == 0
SINGLE_OPEN_MODE == 1
MULTI_OPEN_MODE == 2

\* errno values returned (negated) by the handlers
EBUSY == 16
ENOMEM == 12
ENOSPC == 28
EFAULT == 14
EINVAL == 22

(* ---------------------------------------------------------------------- *)
(* Bounds of the model                                                     *)
(* ---------------------------------------------------------------------- *)
MaxCount == 2       \* largest count passed to read and write
MaxQueues == 2      \* queue_device instances kzalloc can hand out
MaxCalls == 5       \* system calls issued in one behaviour
MaxFaults == 1      \* injected kmalloc / copy_*_user failures
FillCalls == 2      \* calls of the budget spent on the pre-filled start states (the open and a write)
FairCalls == 4      \* calls issued after the start state under fair scheduling
Headroom == 2       \* the pre-filled start states hold QUEUE_SIZE - Headroom .. QUEUE_SIZE bytes

Handles == {1, 2}                   \* the handles (struct file and its caller)
DefaultQ == 0                       \* &default_queue
PrivQ == 1..MaxQueues               \* addresses kzalloc may return
QIds == {DefaultQ} \cup PrivQ
NoQueue == -1                       \* file->private_data of a closed file
Unlocked == 0                       \* single_open_lock not held
Cmds == {0, 1, 2, 99}               \* cmd values given to device_ioctl
Counts == 0..MaxCount

\* the user buffer handle h passes to write(count = n): bytes tagged by writer
Payload(h, n) == [k \in 1..n |-> 10 * h + k]
WrittenBy(b) == b \div 10
\* what the byte behind the list head (the low byte of the rw_semaphore count, held
\* by readers: no waiter, or waiters queued) reads as when the head is taken for an element
GarbageBytes == {0, 2}

VARIABLES
  device_mode,       \* static int device_mode
  single_open_lock,  \* static DEFINE_MUTEX(single_open_lock): Unlocked or the owner
  queue_dev,         \* every struct queue_device: queue, data_size, lock, list head state
  allocated,         \* the kzalloc'ed queue_device instances not yet kfree'd
  pc,                \* where each handle's caller is
  private_data,      \* file->private_data
  count, buf, i, ret, elem, reg,   \* the locals of the call in progress
  op,                \* the call ret belongs to
  holds_lock,        \* history: the handle's open acquired single_open_lock
  written,           \* history: bytes that entered each queue, in lock order
  delivered,         \* history: bytes each queue handed to readers
  qhist,             \* history: "clean", "cleared" (closed, nothing appended since) or "dirty"
  round_trip,        \* history: the read in progress follows writes only
  after_clear,       \* history: the read in progress follows a close with no write since
  at_lock,           \* history: list and counter as the read or write in progress found
                     \* them when it took the rw_semaphore
  ncalls, nfaults    \* budget counters

locals == <<count, buf, i, ret, elem, reg, op>>
history == <<holds_lock, written, delivered, qhist, round_trip, after_clear, at_lock>>
budget == <<ncalls, nfaults>>
vars == <<device_mode, single_open_lock, queue_dev, allocated, pc, private_data,
          locals, history, budget>>

\* INIT_LIST_HEAD, init_rwsem, data_size = 0
EmptyQueue == [queue |-> <<>>, data_size |-> 0, readers |-> {}, writer |-> 0,
               poisoned |-> FALSE]

\* what a call records of the queue_device when it takes the lock
Snapshot(qd) == [queue |-> qd.queue, data_size |-> qd.data_size]

Range(s) == {s[k] : k \in 1..Len(s)}

\* the handles inside a call that works on queue q (past the entry, not yet returned)
InCall(h) == pc[h] \notin {"closed", "ready"}
Busy(q) == {h \in Handles : private_data[h] = q /\ InCall(h)}

\* history bookkeeping: a call of h on q ends every other handle's round trip on q
Disturb(h, q) ==
  [g \in Handles |-> IF g # h /\ private_data[g] = q THEN FALSE ELSE round_trip[g]]

(* ---------------------------------------------------------------------- *)
(* Initial state: queue_init has run.  InitFrom describes the states the      *)
(* specifications start in: device_mode, the contents of default_queue, the   *)
(* calls already made and the handles whose files are open on default_queue  *)
(* (each has just returned from a one-byte write when the queue holds data). *)
(* ---------------------------------------------------------------------- *)
InitFrom(mode, q0, used, opened) ==
  /\ device_mode = mode
  /\ single_open_lock = Unlocked
  /\ queue_dev = [q \in QIds |-> IF q = DefaultQ THEN q0 ELSE EmptyQueue]
  /\ allocated = {}
  /\ pc = [h \in Handles |-> IF h \in opened THEN "ready" ELSE "closed"]
  /\ private_data = [h \in Handles |-> IF h \in opened THEN DefaultQ ELSE NoQueue]
  /\ count = [h \in Handles |-> IF h \in opened THEN 1 ELSE 0]
  /\ buf = [h \in Handles |-> IF h \in opened THEN <<0>> ELSE <<>>]
  /\ i = [h \in Handles |-> IF h \in opened THEN 1 ELSE 0]
  /\ ret = [h \in Handles |-> IF h \in opened THEN 1 ELSE 0]
  /\ elem = [h \in Handles |-> "none"]
  /\ reg = [h \in Handles |-> 0]
  /\ op = [h \in Handles |-> IF h \in opened THEN "write" ELSE "none"]
  /\ holds_lock = [h \in Handles |-> FALSE]
  /\ written = [q \in QIds |-> <<>>]
  /\ delivered = [q \in QIds |-> <<>>]
  /\ qhist = [q \in QIds |-> IF q = DefaultQ /\ q0 # EmptyQueue THEN "dirty" ELSE "clean"]
  /\ round_trip = [h \in Handles |-> FALSE]
  /\ after_clear = [h \in Handles |-> FALSE]
  /\ at_lock = [h \in Handles |-> Snapshot(EmptyQueue)]
  /\ ncalls = used
  /\ nfaults = 0

\* module load: no file is open
Init == InitFrom(DEFAULT_MODE, EmptyQueue, 0, {})

(* ---------------------------------------------------------------------- *)
(* device_open                                                             *)
(* ---------------------------------------------------------------------- *)
\* mutex_trylock(&single_open_lock) succeeds
mutex_trylock(lock) == lock = Unlocked

\* lines 58-63: the first test of device_mode and the trylock
device_open(h) ==
  /\ pc[h] = "closed"
  /\ ncalls < MaxCalls
  /\ ncalls' = ncalls + 1
  /\ op' = [op EXCEPT ![h] = "open"]
  /\ IF device_mode = SINGLE_OPEN_MODE /\ ~mutex_trylock(single_open_lock)
     THEN /\ ret' = [ret EXCEPT ![h] = -EBUSY]
          /\ UNCHANGED <<pc, single_open_lock, holds_lock>>
     ELSE /\ single_open_lock' =
               IF device_mode = SINGLE_OPEN_MODE THEN h ELSE single_open_lock
          /\ holds_lock' = [holds_lock EXCEPT ![h] = (device_mode = SINGLE_OPEN_MODE)]
          /\ pc' = [pc EXCEPT ![h] = "open_bind"]
          /\ UNCHANGED ret
  /\ UNCHANGED <<device_mode, queue_dev, allocated, private_data, count, buf, i,
                 elem, reg, written, delivered, qhist, round_trip, after_clear, at_lock, nfaults>>

\* the binding line 65-75 chooses: a fresh instance in MULTI_OPEN_MODE, else &default_queue
BindsPrivate(mode) == mode = MULTI_OPEN_MODE

\* faulty variant of kzalloc: one instance handed to every MULTI_OPEN_MODE open
kzalloc_static(alloc) == CHOOSE x \in PrivQ : \A y \in PrivQ : x <= y

\* line 66: kzalloc returns an instance that is not in use (the lowest address free)
kzalloc(alloc) == CHOOSE x \in PrivQ \ alloc : \A y \in PrivQ \ alloc : x <= y

\* lines 65-80: the second test of device_mode, kzalloc, file->private_data
device_open_bind(h) ==
  /\ pc[h] = "open_bind"
  /\ IF BindsPrivate(device_mode)
     THEN \E ok \in {x \in BOOLEAN : (x => PrivQ \ allocated # {})
                                     /\ (~x => (PrivQ \ allocated = {} \/ nfaults < MaxFaults))} :
            IF ok
            THEN LET q == kzalloc(allocated)
                 IN /\ allocated' = allocated \cup {q}
                    /\ queue_dev' = [queue_dev EXCEPT ![q] = EmptyQueue]
                    /\ written' = [written EXCEPT ![q] = <<>>]
                    /\ delivered' = [delivered EXCEPT ![q] = <<>>]
                    /\ qhist' = [qhist EXCEPT ![q] = "clean"]
                    /\ private_data' = [private_data EXCEPT ![h] = q]
                    /\ ret' = [ret EXCEPT ![h] = 0]
                    /\ pc' = [pc EXCEPT ![h] = "ready"]
                    /\ UNCHANGED <<nfaults, holds_lock>>
            ELSE /\ ret' = [ret EXCEPT ![h] = -ENOMEM]
                 /\ pc' = [pc EXCEPT ![h] = "closed"]
                 /\ nfaults' = IF PrivQ \ allocated = {} THEN nfaults ELSE nfaults + 1
                 /\ holds_lock' = [holds_lock EXCEPT ![h] = FALSE]
                 /\ UNCHANGED <<allocated, queue_dev, written, delivered, qhist, private_data>>
     ELSE /\ private_data' = [private_data EXCEPT ![h] = DefaultQ]
          /\ ret' = [ret EXCEPT ![h] = 0]
          /\ pc' = [pc EXCEPT ![h] = "ready"]
          /\ UNCHANGED <<allocated, queue_dev, written, delivered, qhist, nfaults, holds_lock>>
  /\ UNCHANGED <<device_mode, single_open_lock, count, buf, i, elem, reg, op,
                 round_trip, after_clear, at_lock, ncalls>>

(* ---------------------------------------------------------------------- *)
(* device_ioctl                                                            *)
(* ---------------------------------------------------------------------- *)
\* faulty variant of ValidCmd: the switch has no default case
ValidCmdAny(cmd) == TRUE

\* lines 221-233: the cases of the switch
ValidCmd(cmd) == cmd \in {DEFAULT_MODE, SINGLE_OPEN_MODE, MULTI_OPEN_MODE}

\* lines 220-237, issued on an open file
device_ioctl(h, cmd) ==
  /\ pc[h] = "ready"
  /\ ncalls < MaxCalls
  /\ ncalls' = ncalls + 1
  /\ op' = [op EXCEPT ![h] = "ioctl"]
  /\ IF ValidCmd(cmd)
     THEN /\ device_mode' = cmd
          /\ ret' = [ret EXCEPT ![h] = 0]
     ELSE /\ ret' = [ret EXCEPT ![h] = -EINVAL]
          /\ UNCHANGED device_mode
  /\ UNCHANGED <<single_open_lock, queue_dev, allocated, pc, private_data, count, buf,
                 i, elem, reg, history, nfaults>>

(* ---------------------------------------------------------------------- *)
(* device_release                                                          *)
(* ---------------------------------------------------------------------- *)
\* line 99: the close releases single_open_lock
ReleaseUnlocks(h) == device_mode = SINGLE_OPEN_MODE

\* lines 96-101: mutex_unlock whoever holds the mutex
device_release(h) ==
  /\ pc[h] = "ready"
  /\ ncalls < MaxCalls
  /\ ncalls' = ncalls + 1
  /\ op' = [op EXCEPT ![h] = "release"]
  /\ single_open_lock' = IF ReleaseUnlocks(h) THEN Unlocked ELSE single_open_lock
  /\ pc' = [pc EXCEPT ![h] = "rel_lock"]
  /\ round_trip' = Disturb(h, private_data[h])
  /\ UNCHANGED <<device_mode, queue_dev, allocated, private_data, count, buf, i, ret,
                 elem, reg, holds_lock, written, delivered, qhist, after_clear, at_lock, nfaults>>

\* faulty variant of CanDownWrite: the writer does not wait for the rw_semaphore
CanDownWriteNoWait(q) == TRUE

\* down_write: no reader and no writer holds the rw_semaphore
CanDownWrite(q) == queue_dev[q].readers = {} /\ queue_dev[q].writer = 0
\* down_read: no writer holds it
CanDownRead(q) == queue_dev[q].writer = 0

\* line 103
device_release_lock(h) ==
  /\ pc[h] = "rel_lock"
  /\ CanDownWrite(private_data[h])
  /\ queue_dev' = [queue_dev EXCEPT ![private_data[h]].writer = h]
  /\ pc' = [pc EXCEPT ![h] = "rel_clear"]
  /\ UNCHANGED <<device_mode, single_open_lock, allocated, private_data, locals,
                 history, budget>>

\* what lines 104-107 leave of the queue_device: every element unlinked and freed
ClearQueue(qd) == [qd EXCEPT !.queue = <<>>]

\* lines 104-108: the clearing loop and up_write.  On a poisoned list head the
\* first list_first_entry dereferences LIST_POISON1 and the task dies in the loop.
device_release_clear(h) ==
  /\ pc[h] = "rel_clear"
  /\ LET q == private_data[h] IN
     IF queue_dev[q].poisoned
     THEN /\ pc' = [pc EXCEPT ![h] = "oops"]
          /\ UNCHANGED <<queue_dev, written, delivered, qhist>>
     ELSE /\ queue_dev' = [queue_dev EXCEPT ![q] = [ClearQueue(@) EXCEPT !.writer = 0]]
          /\ written' = [written EXCEPT ![q] = <<>>]
          /\ delivered' = [delivered EXCEPT ![q] = <<>>]
          /\ qhist' = [qhist EXCEPT ![q] = "cleared"]
          /\ pc' = [pc EXCEPT ![h] = "rel_free"]
  /\ UNCHANGED <<device_mode, single_open_lock, allocated, private_data, locals,
                 holds_lock, round_trip, after_clear, at_lock, budget>>

\* line 110: the close frees the queue_device
ReleaseFrees(h) == device_mode = MULTI_OPEN_MODE

\* lines 110-115.  kfree(&default_queue) frees an object no allocator handed out:
\* the kernel either carries on (a warning at most) or the task dies.
device_release_free(h) ==
  /\ pc[h] = "rel_free"
  /\ LET q == private_data[h] IN
     \E outcome \in IF ReleaseFrees(h) /\ q = DefaultQ THEN {"continue", "oops"}
                    ELSE {"continue"} :
       /\ allocated' = IF ReleaseFrees(h) THEN allocated \ {q} ELSE allocated
       /\ queue_dev' = IF ReleaseFrees(h) /\ q # DefaultQ
                       THEN [queue_dev EXCEPT ![q] = EmptyQueue] ELSE queue_dev
       /\ qhist' = IF ReleaseFrees(h) /\ q # DefaultQ
                   THEN [qhist EXCEPT ![q] = "clean"] ELSE qhist
       /\ IF outcome = "oops"
          THEN /\ pc' = [pc EXCEPT ![h] = "oops"]
               /\ UNCHANGED <<private_data, ret, holds_lock>>
          ELSE /\ pc' = [pc EXCEPT ![h] = "closed"]
               /\ private_data' = [private_data EXCEPT ![h] = NoQueue]
               /\ ret' = [ret EXCEPT ![h] = 0]
               /\ holds_lock' = [holds_lock EXCEPT ![h] = FALSE]
  /\ UNCHANGED <<device_mode, single_open_lock, count, buf, i, elem, reg, op,
                 written, delivered, round_trip, after_clear, at_lock, budget>>

(* ---------------------------------------------------------------------- *)
(* device_write                                                            *)
(* ---------------------------------------------------------------------- *)
\* faulty variant of Overflows: the check leaves out the bytes already queued
OverflowsCountOnly(n, data_size) == n > QUEUE_SIZE

\* line 138: count + queue_dev->data_size > QUEUE_SIZE.  The sum is computed in
\* size_t (64-bit unsigned): a negative data_size converts to 2^64 + data_size, so
\* the sum wraps to count + data_size when that is >= 0 and is a value near 2^64,
\* above QUEUE_SIZE, when it is negative.  (count never exceeds MAX_RW_COUNT < 2^31.)
Overflows(n, data_size) ==
  IF n + data_size < 0 THEN TRUE ELSE n + data_size > QUEUE_SIZE

\* lines 133-141: the capacity check, made before the lock is taken
device_write(h, n) ==
  /\ pc[h] = "ready"
  /\ ncalls < MaxCalls
  /\ ncalls' = ncalls + 1
  /\ op' = [op EXCEPT ![h] = "write"]
  /\ count' = [count EXCEPT ![h] = n]
  /\ buf' = [buf EXCEPT ![h] = Payload(h, n)]
  /\ i' = [i EXCEPT ![h] = 0]
  /\ IF Overflows(n, queue_dev[private_data[h]].data_size)
     THEN /\ ret' = [ret EXCEPT ![h] = -ENOSPC]
          /\ UNCHANGED <<pc, round_trip>>
     ELSE /\ ret' = [ret EXCEPT ![h] = 0]
          /\ pc' = [pc EXCEPT ![h] = "wr_lock"]
          /\ round_trip' = Disturb(h, private_data[h])
  /\ UNCHANGED <<device_mode, single_open_lock, queue_dev, allocated, private_data,
                 elem, reg, holds_lock, written, delivered, qhist, after_clear, at_lock, nfaults>>

\* line 143
device_write_lock(h) ==
  /\ pc[h] = "wr_lock"
  /\ CanDownWrite(private_data[h])
  /\ queue_dev' = [queue_dev EXCEPT ![private_data[h]].writer = h]
  /\ written' = [written EXCEPT ![private_data[h]] =
                   IF qhist[private_data[h]] = "clean" THEN @ \o buf[h] ELSE @]
  /\ at_lock' = [at_lock EXCEPT ![h] = Snapshot(queue_dev[private_data[h]])]
  /\ pc' = [pc EXCEPT ![h] = "wr_loop"]
  /\ UNCHANGED <<device_mode, single_open_lock, allocated, private_data, locals,
                 holds_lock, delivered, qhist, round_trip, after_clear, budget>>

\* faulty variant of list_add_tail: insertion at the head (list_add)
list_add(b, queue) == <<b>> \o queue

\* line 159
list_add_tail(b, queue) == Append(queue, b)

\* the failures one iteration of a copy loop can meet
Failures == IF nfaults < MaxFaults THEN {"enomem", "efault"} ELSE {}

\* faulty variant of WriteReturn: the number of bytes appended, whatever happened
WriteReturnCount(r, k) == k

\* line 165: ret ? ret : i
WriteReturn(r, k) == IF r # 0 THEN r ELSE k

\* lines 144-165: one iteration of the loop, or its end, up_write and the return.
\* list_add_tail on a poisoned head stores through LIST_POISON2: the task dies.
device_write_loop(h) ==
  /\ pc[h] = "wr_loop"
  /\ LET q == private_data[h] IN
     IF i[h] < count[h]
     THEN \E outcome \in {"ok"} \cup Failures :
            IF outcome = "ok"
            THEN IF queue_dev[q].poisoned
                 THEN /\ pc' = [pc EXCEPT ![h] = "oops"]
                      /\ UNCHANGED <<queue_dev, i, ret, qhist, written, delivered, nfaults>>
                 ELSE /\ queue_dev' = [queue_dev EXCEPT
                           ![q].queue = list_add_tail(buf[h][i[h] + 1], @),
                           ![q].data_size = @ + 1]
                      /\ i' = [i EXCEPT ![h] = @ + 1]
                      /\ qhist' = [qhist EXCEPT ![q] = IF @ = "cleared" THEN "dirty" ELSE @]
                      /\ UNCHANGED <<pc, ret, written, delivered, nfaults>>
            ELSE /\ ret' = [ret EXCEPT ![h] =
                              WriteReturn(IF outcome = "enomem" THEN -ENOMEM ELSE -EFAULT, i[h])]
                 /\ queue_dev' = [queue_dev EXCEPT ![q].writer = 0]
                 /\ pc' = [pc EXCEPT ![h] = "ready"]
                 /\ nfaults' = nfaults + 1
                 /\ qhist' = [qhist EXCEPT ![q] = IF @ = "clean" THEN "dirty" ELSE @]
                 /\ written' = [written EXCEPT ![q] = <<>>]
                 /\ delivered' = [delivered EXCEPT ![q] = <<>>]
                 /\ UNCHANGED i
     ELSE /\ queue_dev' = [queue_dev EXCEPT ![q].writer = 0]
          /\ ret' = [ret EXCEPT ![h] = WriteReturn(@, i[h])]
          /\ pc' = [pc EXCEPT ![h] = "ready"]
          /\ UNCHANGED <<i, qhist, written, delivered, nfaults>>
  /\ at_lock' = [at_lock EXCEPT ![h] = IF pc'[h] = "ready" THEN Snapshot(EmptyQueue) ELSE @]
  /\ UNCHANGED <<device_mode, single_open_lock, allocated, private_data, count, buf,
                 elem, reg, op, holds_lock, round_trip, after_clear, ncalls>>

(* ---------------------------------------------------------------------- *)
(* device_read                                                             *)
(* ---------------------------------------------------------------------- *)
\* lines 183-186: entry
device_read(h, n) ==
  /\ pc[h] = "ready"
  /\ ncalls < MaxCalls
  /\ ncalls' = ncalls + 1
  /\ op' = [op EXCEPT ![h] = "read"]
  /\ count' = [count EXCEPT ![h] = n]
  /\ buf' = [buf EXCEPT ![h] = <<>>]
  /\ i' = [i EXCEPT ![h] = 0]
  /\ ret' = [ret EXCEPT ![h] = 0]
  /\ pc' = [pc EXCEPT ![h] = "rd_lock"]
  /\ round_trip' = [Disturb(h, private_data[h]) EXCEPT ![h] = FALSE]
  /\ after_clear' = [after_clear EXCEPT ![h] = FALSE]
  /\ UNCHANGED <<device_mode, single_open_lock, queue_dev, allocated, private_data,
                 elem, reg, holds_lock, written, delivered, qhist, at_lock, nfaults>>

\* line 188: the lock is taken in its shared form
ReadLockShared == TRUE

device_read_lock(h) ==
  /\ pc[h] = "rd_lock"
  /\ LET q == private_data[h] IN
     /\ IF ReadLockShared
        THEN /\ CanDownRead(q)
             /\ queue_dev' = [queue_dev EXCEPT ![q].readers = @ \cup {h}]
        ELSE /\ CanDownWrite(q)
             /\ queue_dev' = [queue_dev EXCEPT ![q].writer = h]
     /\ round_trip' = [round_trip EXCEPT ![h] =
          /\ qhist[q] = "clean"
          /\ delivered[q] = <<>>
          /\ count[h] = Len(written[q])
          /\ Busy(q) = {h}]
     /\ after_clear' = [after_clear EXCEPT ![h] = (qhist[q] = "cleared")]
     /\ at_lock' = [at_lock EXCEPT ![h] = Snapshot(queue_dev[q])]
  /\ pc' = [pc EXCEPT ![h] = "rd_loop"]
  /\ UNCHANGED <<device_mode, single_open_lock, allocated, private_data, locals,
                 holds_lock, written, delivered, qhist, budget>>

\* up_read / up_write at line 202, whichever form line 188 took
ReadUnlock(qd, h) == [qd EXCEPT !.readers = @ \ {h},
                                !.writer = IF @ = h THEN 0 ELSE @]

\* line 205: ret ? ret : i
ReadReturn(r, k) == IF r # 0 THEN r ELSE k

\* line 189: the loop condition
ReadContinues(k, n, data_size) == k < n /\ data_size > 0

\* line 190
list_first_entry(queue) == Head(queue)

\* lines 189-196 and 202-205: the loop test, list_first_entry and copy_to_user of
\* one iteration, or the end of the loop, up_read and the return.
\*  - empty list with data_size > 0: list_first_entry yields the head itself and
\*    the byte behind it is copied out;
\*  - poisoned head: the source of copy_to_user is LIST_POISON1 + 16; the access
\*    either kills the task or is fixed up as a failed copy.
device_read_loop(h) ==
  /\ pc[h] = "rd_loop"
  /\ LET q == private_data[h]
         qd == queue_dev[private_data[h]] IN
     IF ReadContinues(i[h], count[h], qd.data_size)
     THEN IF qd.poisoned
          THEN \E outcome \in {"oops", "efault"} :
                 /\ pc' = [pc EXCEPT ![h] = IF outcome = "oops" THEN "oops" ELSE "ready"]
                 /\ ret' = [ret EXCEPT ![h] = IF outcome = "oops" THEN @
                                              ELSE ReadReturn(-EFAULT, i[h])]
                 /\ queue_dev' = IF outcome = "oops" THEN queue_dev
                                 ELSE [queue_dev EXCEPT ![q] = ReadUnlock(@, h)]
                 /\ UNCHANGED <<buf, elem, delivered, qhist, written, nfaults, round_trip>>
          ELSE \E outcome \in {"ok"} \cup (Failures \ {"enomem"}) :
                 IF outcome = "ok"
                 THEN /\ IF qd.queue = <<>>
                         THEN /\ elem' = [elem EXCEPT ![h] = "head"]
                              /\ \E g \in GarbageBytes : buf' = [buf EXCEPT ![h] = Append(@, g)]
                              /\ UNCHANGED delivered
                         ELSE /\ elem' = [elem EXCEPT ![h] = "linked"]
                              /\ buf' = [buf EXCEPT ![h] = Append(@, list_first_entry(qd.queue))]
                              /\ delivered' = [delivered EXCEPT ![q] =
                                   IF qhist[q] = "clean"
                                   THEN Append(@, list_first_entry(qd.queue)) ELSE @]
                      /\ pc' = [pc EXCEPT ![h] = "rd_del"]
                      /\ UNCHANGED <<ret, queue_dev, qhist, written, nfaults, round_trip>>
                 ELSE /\ ret' = [ret EXCEPT ![h] = ReadReturn(-EFAULT, i[h])]
                      /\ queue_dev' = [queue_dev EXCEPT ![q] = ReadUnlock(@, h)]
                      /\ pc' = [pc EXCEPT ![h] = "ready"]
                      /\ nfaults' = nfaults + 1
                      /\ qhist' = [qhist EXCEPT ![q] = IF @ = "clean" THEN "dirty" ELSE @]
                      /\ written' = [written EXCEPT ![q] = <<>>]
                      /\ delivered' = [delivered EXCEPT ![q] = <<>>]
                      /\ round_trip' = [h2 \in Handles |->
                            IF private_data[h2] = q THEN FALSE ELSE round_trip[h2]]
                      /\ UNCHANGED <<buf, elem>>
     ELSE /\ queue_dev' = [queue_dev EXCEPT ![q] = ReadUnlock(@, h)]
          /\ ret' = [ret EXCEPT ![h] = ReadReturn(@, i[h])]
          /\ pc' = [pc EXCEPT ![h] = "ready"]
          /\ UNCHANGED <<buf, elem, delivered, qhist, written, nfaults, round_trip>>
  /\ at_lock' = [at_lock EXCEPT ![h] = IF pc'[h] = "ready" THEN Snapshot(EmptyQueue) ELSE @]
  /\ UNCHANGED <<device_mode, single_open_lock, allocated, private_data, count, i,
                 reg, op, holds_lock, after_clear, ncalls>>

\* line 198
list_del(queue) == Tail(queue)

\* lines 198-200, first half: list_del(&elem->list), kfree(elem) and the load of
\* data_size for the decrement.
\*  - "linked": the first element is unlinked; every other reader that fetched the
\*    same element now holds a pointer to freed memory;
\*  - "head": the list head is unlinked from itself and poisoned, and the
\*    queue_device is passed to kfree;
\*  - "freed", or a head already poisoned: list_del and kfree of an object that is
\*    already unlinked and freed.
\* The last two are undefined: the kernel either carries on or the task dies.
device_read_del(h) ==
  /\ pc[h] = "rd_del"
  /\ LET q == private_data[h]
         qd == queue_dev[private_data[h]] IN
     IF elem[h] = "linked"
     THEN /\ queue_dev' = [queue_dev EXCEPT ![q].queue = list_del(@)]
          /\ elem' = [g \in Handles |->
                        IF g # h /\ private_data[g] = q /\ elem[g] = "linked"
                        THEN "freed" ELSE elem[g]]
          /\ reg' = [reg EXCEPT ![h] = qd.data_size]
          /\ pc' = [pc EXCEPT ![h] = "rd_dec"]
          /\ UNCHANGED <<qhist, written, delivered>>
     ELSE \E outcome \in {"continue", "oops"} :
            /\ queue_dev' = IF elem[h] = "head"
                            THEN [queue_dev EXCEPT ![q].poisoned = TRUE] ELSE queue_dev
            /\ qhist' = [qhist EXCEPT ![q] = IF @ = "clean" THEN "dirty" ELSE @]
            /\ written' = [written EXCEPT ![q] = <<>>]
            /\ delivered' = [delivered EXCEPT ![q] = <<>>]
            /\ reg' = [reg EXCEPT ![h] = IF outcome = "oops" THEN @ ELSE qd.data_size]
            /\ pc' = [pc EXCEPT ![h] = IF outcome = "oops" THEN "oops" ELSE "rd_dec"]
            /\ UNCHANGED elem
  /\ UNCHANGED <<device_mode, single_open_lock, allocated, private_data, count, buf,
                 i, ret, op, holds_lock, round_trip, after_clear, at_lock, budget>>

\* line 200, second half: the store of data_size - 1; then i++
device_read_dec(h) ==
  /\ pc[h] = "rd_dec"
  /\ queue_dev' = [queue_dev EXCEPT ![private_data[h]].data_size = reg[h] - 1]
  /\ i' = [i EXCEPT ![h] = @ + 1]
  /\ elem' = [elem EXCEPT ![h] = "none"]
  /\ reg' = [reg EXCEPT ![h] = 0]
  /\ pc' = [pc EXCEPT ![h] = "rd_loop"]
  /\ UNCHANGED <<device_mode, single_open_lock, allocated, private_data, count, buf,
                 ret, op, history, budget>>

(* ---------------------------------------------------------------------- *)
(* Specifications                                                          *)
(* ---------------------------------------------------------------------- *)
Next ==
  \E h \in Handles :
    \/ device_open(h)
    \/ device_open_bind(h)
    \/ \E cmd \in Cmds : device_ioctl(h, cmd)
    \/ device_release(h)
    \/ device_release_lock(h)
    \/ device_release_clear(h)
    \/ device_release_free(h)
    \/ \E n \in Counts : device_write(h, n)
    \/ device_write_lock(h)
    \/ device_write_loop(h)
    \/ \E n \in Counts : device_read(h, n)
    \/ device_read_lock(h)
    \/ device_read_loop(h)
    \/ device_read_del(h)
    \/ device_read_dec(h)

\* from module load
Spec == Init /\ [][Next]_vars

\* a queue of n zero bytes: what n one-byte writes from /dev/zero leave behind
\* while the writing file stays open
Filled(n) == [EmptyQueue EXCEPT !.queue = [k \in 1..n |-> 0], !.data_size = n]

\* from any mode left behind by earlier opens, ioctls and closes (every mode is
\* reached with no file open and the driver otherwise as loaded: e.g. open A,
\* ioctl(A, m), open B, ioctl(A, 0), close A, ioctl(B, m), close B)
Modes == {DEFAULT_MODE, SINGLE_OPEN_MODE, MULTI_OPEN_MODE}
InitModes == \E m \in Modes : InitFrom(m, EmptyQueue, 0, {})
SpecModes == InitModes /\ [][Next]_vars

\* from a default queue already holding QUEUE_SIZE - Headroom .. QUEUE_SIZE bytes,
\* written through a handle that is still open (a close would have emptied the
\* list); the calls that filled it count against the budget
Filler == CHOOSE h \in Handles : \A g \in Handles : h <= g
InitFilled ==
  \E n \in (QUEUE_SIZE - Headroom)..QUEUE_SIZE :
    InitFrom(DEFAULT_MODE, Filled(n), FillCalls, {Filler})
SpecFilled == InitFilled /\ [][Next]_vars

\* the steps a call in progress takes once it has entered the handler
Continue(h) ==
  \/ device_open_bind(h)
  \/ device_release_lock(h)
  \/ device_release_clear(h)
  \/ device_release_free(h)
  \/ device_write_lock(h)
  \/ device_write_loop(h)
  \/ device_read_lock(h)
  \/ device_read_loop(h)
  \/ device_read_del(h)
  \/ device_read_dec(h)

\* fair scheduling: a caller inside a handler that can take its next step (it
\* is running, or the rw_semaphore it sleeps on is free) eventually takes it;
\* nothing obliges a caller to issue a further call
Fairness ==
  \A h \in Handles : WF_vars(Continue(h))

\* from a default queue holding 1 .. MaxCount bytes, written by one write through
\* a handle that is still open, under fair scheduling
InitWritten ==
  \E n \in 1..MaxCount :
    InitFrom(DEFAULT_MODE, Filled(n), MaxCalls - FairCalls, {Filler})
FairSpec == InitWritten /\ [][Next]_vars /\ Fairness

TypeOK ==
  /\ device_mode \in Modes
  /\ single_open_lock \in {Unlocked} \cup Handles
  /\ allocated \subseteq PrivQ
  /\ \A h \in Handles : private_data[h] \in QIds \cup {NoQueue}
  /\ ncalls \in 0..MaxCalls /\ nfaults \in 0..MaxFaults

(* ---------------------------------------------------------------------- *)
(* Properties                                                              *)
(* ---------------------------------------------------------------------- *)
QueueOf(h) == queue_dev[private_data[h]]
Returned(h, call) == pc[h] = "ready" /\ op[h] = call

\* C1: FIFO round trip.  On a queue instance whose whole history is a sequence
\* of successful writes (by any handles, in the order they took the lock), a
\* following read of as many bytes as were written returns exactly the written
\* payloads concatenated in that order, and leaves the queue empty.
FifoRoundTrip ==
  \A h \in Handles :
    (Returned(h, "read") /\ round_trip[h]) =>
      /\ ret[h] = count[h]
      /\ buf[h] = written[private_data[h]]
      /\ QueueOf(h).queue = <<>>

\* a read returned two bytes that two different handles wrote
FifoRoundTripWitness ==
  \E h \in Handles :
    /\ Returned(h, "read") /\ round_trip[h]
    /\ Len(buf[h]) = 2
    /\ WrittenBy(buf[h][1]) # WrittenBy(buf[h][2])

\* C2: a write of n bytes to a queue whose length counter is k with
\* k + n > QUEUE_SIZE returns -ENOSPC at once and leaves every queue (element
\* sequence, length counter, lock) exactly as it was.
OverflowRejected ==
  [][\A h \in Handles : \A n \in Counts :
       (device_write(h, n) /\ n + QueueOf(h).data_size > QUEUE_SIZE) =>
         /\ ret'[h] = -ENOSPC
         /\ pc'[h] = "ready"
         /\ queue_dev' = queue_dev]_vars

\* a write was rejected on a queue that was nearly full and stays as it was
OverflowRejectedWitness ==
  \E h \in Handles :
    /\ Returned(h, "write") /\ ret[h] = -ENOSPC
    /\ count[h] > 0
    /\ QueueOf(h).data_size + count[h] > QUEUE_SIZE
    /\ QueueOf(h).data_size <= QUEUE_SIZE
    /\ Len(QueueOf(h).queue) = QueueOf(h).data_size

\* C3: every queue instance holds between 0 and QUEUE_SIZE bytes, whatever the
\* interleaving of the writes of several handles.
CapacityBound ==
  \A q \in QIds : Len(queue_dev[q].queue) <= QUEUE_SIZE

\* C4: when no call is in progress on a queue instance, its length counter
\* equals the number of elements linked in its list.
CounterConsistent ==
  \A q \in QIds :
    Busy(q) = {} => queue_dev[q].data_size = Len(queue_dev[q].queue)

\* the handle's file is open: its open has returned and its close has not begun
IsOpen(h) == pc[h] \in {"ready", "wr_lock", "wr_loop", "rd_lock", "rd_loop", "rd_del", "rd_dec"}

\* C5: in SINGLE_OPEN_MODE an open issued while a handle whose open took the
\* exclusivity lock is still open fails with -EBUSY; and when no such handle is
\* left, an open in SINGLE_OPEN_MODE succeeds.
ExclusiveOpen ==
  [][\A h \in Handles :
       (device_open(h) /\ device_mode = SINGLE_OPEN_MODE) =>
         /\ (\E g \in Handles \ {h} : IsOpen(g) /\ holds_lock[g]) =>
               (ret'[h] = -EBUSY /\ pc'[h] = "closed")
         /\ (\A g \in Handles : ~holds_lock[g]) => pc'[h] = "open_bind"]_vars

\* C6: a handle whose open took the exclusivity lock is the only handle bound
\* to the shared queue instance.
ExclusiveAlone ==
  \A h \in Handles :
    (IsOpen(h) /\ holds_lock[h] /\ private_data[h] = DefaultQ) =>
      \A g \in Handles \ {h} : private_data[g] # DefaultQ

\* the bytes of s from position k on
Drop(s, k) == SubSeq(s, k + 1, Len(s))

\* C7: a handle bound to a private instance shares it with no other handle;
\* the instance and every read on the handle hold only bytes written through
\* that handle; and between calls the bytes written are the bytes delivered
\* followed by the bytes still queued, in order.
PerHandleIsolation ==
  \A h \in Handles :
    private_data[h] \in PrivQ =>
      LET q == private_data[h] IN
      /\ \A g \in Handles \ {h} : private_data[g] # q
      /\ \A b \in Range(queue_dev[q].queue) : WrittenBy(b) = h
      /\ op[h] = "read" => \A b \in Range(buf[h]) : WrittenBy(b) = h
      /\ (pc[h] = "ready" /\ qhist[q] = "clean") =>
            /\ written[q] = delivered[q] \o queue_dev[q].queue
            /\ \A b \in Range(written[q]) : WrittenBy(b) = h
            /\ op[h] = "read" =>
                 (/\ Len(buf[h]) <= Len(delivered[q])
                  /\ buf[h] = Drop(delivered[q], Len(delivered[q]) - Len(buf[h])))

\* two handles hold private instances, both wrote, and one read its own bytes back
PerHandleIsolationWitness ==
  \E a \in Handles : \E b \in Handles \ {a} :
    /\ private_data[a] \in PrivQ /\ private_data[b] \in PrivQ
    /\ Returned(a, "read") /\ buf[a] # <<>> /\ buf[a] = written[private_data[a]]
    /\ Returned(b, "write") /\ ret[b] > 0

\* C8: in DEFAULT_MODE, a read that starts on the shared queue after a close
\* cleared it, with nothing written since, returns 0 bytes.
ReadAfterCloseEmpty ==
  \A h \in Handles :
    (/\ Returned(h, "read") /\ after_clear[h]
     /\ private_data[h] = DefaultQ /\ device_mode = DEFAULT_MODE
     /\ nfaults = 0) =>
      (ret[h] = 0 /\ buf[h] = <<>>)

\* C9: what a close does follows from how the handle was bound at open: it
\* releases the exclusivity lock iff the handle's open took it, and it frees
\* the queue instance iff the handle is bound to a private instance.
CloseFollowsBinding ==
  [][\A h \in Handles :
       /\ device_release(h) =>
            single_open_lock' = IF holds_lock[h] THEN Unlocked ELSE single_open_lock
       /\ device_release_free(h) =>
            (ReleaseFrees(h) <=> private_data[h] \in PrivQ)]_vars

\* inside the section that appends (write), removes a fetched element (read) or
\* unlinks every element (close)
InSection(h) == pc[h] \in {"wr_loop", "rd_del", "rd_dec", "rel_clear"}

\* C10: at most one handle is inside the mutating section of a queue instance.
MutationsSerialized ==
  \A q \in QIds :
    \A g \in Handles : \A h \in Handles :
      (private_data[g] = q /\ private_data[h] = q /\ InSection(g) /\ InSection(h)) => g = h

\* C11: device_ioctl with a cmd outside {0, 1, 2} returns -EINVAL and changes
\* nothing a later open depends on (device_mode, the exclusivity lock, the
\* queues, the bindings); with cmd 0, 1 or 2 it returns 0 and device_mode
\* becomes DEFAULT_MODE, SINGLE_OPEN_MODE or MULTI_OPEN_MODE.
IoctlSetsMode ==
  [][\A h \in Handles : \A cmd \in Cmds :
       device_ioctl(h, cmd) =>
         IF cmd \in {0, 1, 2}
         THEN ret'[h] = 0 /\ device_mode' = cmd /\ device_mode' \in Modes
         ELSE /\ ret'[h] = -EINVAL
              /\ UNCHANGED <<device_mode, single_open_lock, queue_dev, allocated,
                             private_data, pc>>]_vars

\* an ioctl with an unknown cmd was refused in SINGLE_OPEN_MODE, and an open of
\* another handle met the mode still in force
IoctlSetsModeWitness ==
  \E h \in Handles : \E g \in Handles \ {h} :
    /\ Returned(h, "ioctl") /\ ret[h] = -EINVAL
    /\ device_mode = SINGLE_OPEN_MODE /\ single_open_lock = h
    /\ op[g] = "open" /\ ret[g] = -EBUSY /\ pc[g] = "closed"

Min(a, b) == IF a <= b THEN a ELSE b

\* C12: a read(count) through the only handle bound to a queue instance, which
\* finds k bytes queued and meets no copy failure, returns
\* min(count, k), delivers the first min(count, k) bytes and leaves the rest
\* queued in order; on an empty queue it returns 0, delivers nothing and leaves
\* the queue empty.
ReadTakesHead ==
  [][\A h \in Handles :
       (/\ device_read_loop(h) /\ pc'[h] = "ready" /\ nfaults' = nfaults
        /\ \A g \in Handles \ {h} : private_data[g] # private_data[h]) =>
         LET k == Len(at_lock[h].queue)
             m == Min(count[h], k)
         IN /\ ret'[h] = m
            /\ buf[h] = SubSeq(at_lock[h].queue, 1, m)
            /\ queue_dev'[private_data[h]].queue = Drop(at_lock[h].queue, m)]_vars

\* the kernel killed the task inside the handler
Killed(h) == pc[h] = "oops"

\* C13: under fair scheduling every call that is in progress, and whose task is
\* not killed inside the handler, eventually returns.
EveryCallReturns ==
  \A h \in Handles :
    (InCall(h) /\ ~Killed(h)) ~> (~InCall(h) \/ Killed(h))

\* C14: a write of n bytes to a queue that actually holds k bytes, with
\* k + n <= QUEUE_SIZE, is not refused for lack of space: it goes on to append.
\* In particular a queue cleared by a close accepts again up to QUEUE_SIZE bytes.
WriteAccepted ==
  [][\A h \in Handles : \A n \in Counts :
       (device_write(h, n) /\ Len(QueueOf(h).queue) + n <= QUEUE_SIZE) =>
         (ret'[h] # -ENOSPC /\ pc'[h] = "wr_lock")]_vars

\* the private instances some file is bound to
BoundInstances == {private_data[h] : h \in Handles} \cap PrivQ

\* C15: the instances allocated and not yet freed are exactly the private
\* instances in use by a file (each is freed at its handle's close, none is
\* freed while in use, none is left behind), and no close passes the shared
\* instance to kfree.
InstanceLifecycle ==
  /\ [](allocated = BoundInstances)
  /\ [][\A h \in Handles :
          device_release_free(h) =>
            /\ ~(ReleaseFrees(h) /\ private_data[h] = DefaultQ)
            /\ private_data[h] \in PrivQ => allocated' = allocated \ {private_data[h]}]_vars

IsPrefix(s, t) == Len(s) <= Len(t) /\ s = SubSeq(t, 1, Len(s))

\* C16: with several handles reading one queue instance and no copy failure,
\* the bytes handed to readers are, in order and each once, the bytes written
\* (no byte goes to two read calls), and no reader holds an element that
\* another reader has already unlinked and freed.
ReadsDeliverOnce ==
  /\ \A q \in QIds : qhist[q] = "clean" => IsPrefix(delivered[q], written[q])
  /\ \A h \in Handles : elem[h] # "freed"

\* C17: a write that passed the capacity check and fails at its j-th byte
\* (kmalloc or copy_from_user fails) has appended exactly the first j bytes of
\* its payload to the tail, in order, has raised the length counter by j, and
\* returns -ENOMEM or -EFAULT, not j.
PartialWrite ==
  [][\A h \in Handles :
       (device_write_loop(h) /\ nfaults' # nfaults) =>
         LET j == i[h]
             q == private_data[h]
         IN /\ j < count[h]
            /\ queue_dev'[q].queue = at_lock[h].queue \o SubSeq(buf[h], 1, j)
            /\ queue_dev'[q].data_size = at_lock[h].data_size + j
            /\ ret'[h] \in {-ENOMEM, -EFAULT}
            /\ pc'[h] = "ready"]_vars

\* a write of two bytes failed at its second byte on a queue that held a byte
\* of another handle: the first byte is queued behind it, the error is returned
PartialWriteWitness ==
  \E h \in Handles :
    /\ Returned(h, "write") /\ ret[h] \in {-ENOMEM, -EFAULT}
    /\ count[h] = 2 /\ i[h] = 1
    /\ Len(QueueOf(h).queue) = 2
    /\ WrittenBy(QueueOf(h).queue[1]) # h
    /\ QueueOf(h).queue[2] = buf[h][1]
    /\ QueueOf(h).data_size = 2

\* C18: a read whose copy_to_user fails at the j-th of the bytes it found
\* queued has delivered and removed the first j of them, leaves the byte it failed on at the head
\* with the later bytes behind it, has lowered the length counter by j, and
\* returns -EFAULT, not j.
PartialRead ==
  [][\A h \in Handles :
       (device_read_loop(h) /\ nfaults' # nfaults /\ i[h] < Len(at_lock[h].queue)) =>
         LET j == i[h]
             q == private_data[h]
         IN /\ buf[h] = SubSeq(at_lock[h].queue, 1, j)
            /\ queue_dev'[q].queue = Drop(at_lock[h].queue, j)
            /\ queue_dev'[q].data_size = at_lock[h].data_size - j
            /\ ret'[h] = -EFAULT]_vars

\* C19: an open acts on one value of device_mode: a handle that holds the
\* exclusivity lock is never bound to a private instance, and an open that
\* failed (-EBUSY, -ENOMEM) does not leave the exclusivity lock held by its
\* caller.
OpenConsistent ==
  \A h \in Handles :
    /\ ~(single_open_lock = h /\ private_data[h] \in PrivQ)
    /\ (pc[h] = "closed" /\ op[h] = "open" /\ ret[h] \in {-EBUSY, -ENOMEM}) =>
         single_open_lock # h

\* holding the rw_semaphore of its queue instance, inside a loop over the list
HoldsGuard(h) == pc[h] \in {"wr_loop", "rd_loop", "rd_del", "rd_dec", "rel_clear"}

\* C20: while a write is appending, the list is the list it found at down_write
\* followed by the bytes it has appended so far, in payload order (its bytes
\* form one run at the tail that no other write cuts into), and no other
\* handle is reading, writing or clearing that instance.
WritesAtomic ==
  \A h \in Handles :
    pc[h] = "wr_loop" =>
      /\ QueueOf(h).queue = at_lock[h].queue \o SubSeq(buf[h], 1, i[h])
      /\ \A g \in Handles \ {h} : private_data[g] = private_data[h] => ~HoldsGuard(g)

\* a write of two bytes has appended one of them behind another handle's bytes,
\* while that handle waits at down_write with its next write
WritesAtomicWitness ==
  \E h \in Handles : \E g \in Handles \ {h} :
    /\ private_data[g] = private_data[h]
    /\ pc[h] = "wr_loop" /\ count[h] = 2 /\ i[h] = 1
    /\ at_lock[h].queue # <<>> /\ WrittenBy(at_lock[h].queue[1]) = g
    /\ pc[g] = "wr_lock" /\ count[g] > 0

====
